---- MODULE Spec2Model ----
(***************************************************************************)
(* AuthService (NestJS + mongoose + bcryptjs + @nestjs/jwt): create,       *)
(* register, login, findAll, searchEmail, findUserById.                    *)
(*                                                                         *)
(* Strings are modelled as tuples of one-character strings, JavaScript     *)
(* objects as records (a missing key is a field outside the DOMAIN), a     *)
(* thrown value as a record: an HttpException carries a "response" field,  *)
(* a raw Error does not.                                                   *)
(***************************************************************************)
EXTENDS Integers, Sequences, FiniteSets, TLC

VARIABLES
    users,   \* the documents of the User collection, in insertion order
    calls,   \* calls[c]: one invocation of a service method and its outcome
    log      \* what console.log has written, in order

vars == <<users, calls, log>>

(***************************** bounds **************************************)
\* number of service calls in one behaviour
MaxCalls == 2
\* number of distinct streams Math.random may deliver to one call
NumStreams == 2

(************************** program constants ******************************)
\* MongoDB's duplicate-key error code, tested by create's catch
DuplicateKeyCode == 11000
\* the length register asks createRandomPassword for
GeneratedLength == 8
\* @MinLength of RegisterUserDto.email and RegisterUserDto.password
EmailMinLength == 3
PasswordMinLength == 6
\* statusCode of BadRequestException, compared by register's catch
BadRequestStatus == 400

\* banco, the alphabet of createRandomPassword
banco ==
    << "A","B","C","D","E","F","G","H","I","J","K","L","M",
       "N","O","P","Q","R","S","T","U","V","W","X","Y","Z",
       "a","b","c","d","e","f","g","h","i","j","k","l","m",
       "n","o","p","q","r","s","t","u","v","w","x","y","z",
       "0","1","2","3","4","5","6","7","8","9" >>

(***************************** inputs **************************************)
\* the value of a variable bound by destructuring a key the object lacks
Undefined == <<"undefined">>

Names == { <<"A","n","a">> }

Emails == { <<"a","@","x">>, <<"A","@","x">> }

\* the password a caller may put in a DTO, and another one to try at login
DtoPasswords == { <<"s","e","c","r","e","t">> }
OtherPasswords == { <<"h","u","n","t","e","r","2">> }

\* CreateUserDto: name, email and (when the key is present) password
CreateUserDtos ==
    [name : Names, email : Emails, password : DtoPasswords]
        \cup [name : Names, email : Emails]

\* RegisterUserDto: the class declares name, email and password
RegisterUserDtos ==
    [name : Names, email : Emails, password : DtoPasswords]
        \cup [name : Names, email : Emails]

\* class-validator's verdict on a RegisterUserDto (no key is optional)
ValidRegisterUserDto(dto) ==
    /\ "name" \in DOMAIN dto
    /\ "email" \in DOMAIN dto /\ Len(dto.email) >= EmailMinLength
    /\ "password" \in DOMAIN dto /\ Len(dto.password) >= PasswordMinLength

(************************* JavaScript objects ******************************)
\* const { field: _, ...rest } = obj
Omit(obj, field) == [f \in DOMAIN obj \ {field} |-> obj[f]]

\* { ...a, ...b }: the keys of b override those of a
Spread(a, b) ==
    [f \in DOMAIN a \cup DOMAIN b |-> IF f \in DOMAIN b THEN b[f] ELSE a[f]]

\* const { field } = obj
Get(obj, field) == IF field \in DOMAIN obj THEN obj[field] ELSE Undefined

(****************************** bcryptjs ***********************************)
\* bcryptjs draws 16 random bytes for each hash it makes: the salt of a hash is
\* fresh, and is modelled by the number of the call that makes the hash
Salts == 1 .. Len(banco)

genSalt(c) == c

SaltText(salt) == << "$2a$10$", banco[salt] >>

\* position of a character in banco (0 for a character outside it)
IndexOf(ch) ==
    IF \E i \in 1 .. Len(banco) : banco[i] = ch
    THEN CHOOSE i \in 1 .. Len(banco) : banco[i] = ch
    ELSE 0

\* the digest part of a bcrypt hash: an injective scrambling of the secret
\* that depends on the salt, so the stored value is not the secret itself
DigestChar(ch, salt) ==
    IF IndexOf(ch) = 0 THEN ch
    ELSE banco[((IndexOf(ch) - 1 + 13 * salt) % Len(banco)) + 1]

Digest(s, salt) == [i \in 1 .. Len(s) |-> DigestChar(s[Len(s) + 1 - i], salt)]

\* bcryptjs.hashSync(s, 10) once the salt is drawn
HashWithSalt(s, salt) == SaltText(salt) \o Digest(s, salt)

\* bcryptjs.compareSync(s, hash): hash s under the salt of hash and compare
compareSync(s, hash) ==
    /\ Len(hash) >= 2
    /\ \E salt \in Salts :
          /\ SubSeq(hash, 1, 2) = SaltText(salt)
          /\ HashWithSalt(s, salt) = hash

(************************** thrown values **********************************)
HttpException(status, message, error) ==
    [response |-> [statusCode |-> status, message |-> message, error |-> error]]

BadRequestException(message) ==
    HttpException(BadRequestStatus, message, "Bad Request")

InternalServerErrorException(message) ==
    HttpException(500, message, "Internal Server Error")

UnauthorizedException(message) ==
    HttpException(401, message, "Unauthorized")

NotFoundException(message) ==
    HttpException(404, message, "Not Found")

\* errors that are not HttpExceptions: they carry no "response"
RawError(name, code) == [name |-> name, code |-> code]

Returned(value) == [kind |-> "return", value |-> value]
Thrown(error) == [kind |-> "throw", error |-> error]

(************************* createRandomPassword ****************************)
Streams == 0 .. NumStreams - 1

\* Math.floor( Math.random() * banco.length ) at the x-th draw of a stream
RandomIndex(stream, x) == (17 * stream + 7 * x + x * x * stream) % Len(banco)

RECURSIVE RandomLoop(_, _, _, _)
RandomLoop(pass, x, longitud, stream) ==
    IF x < longitud
    THEN RandomLoop(Append(pass, banco[RandomIndex(stream, x) + 1]),
                    x + 1, longitud, stream)
    ELSE pass

createRandomPassword(longitud, stream) == RandomLoop(<<>>, 0, longitud, stream)

(******************************* the store *********************************)
\* userModel.findOne({ email }): the first document with that email, if any
HasEmail(email) == \E i \in 1 .. Len(users) : users[i].email = email

findOne(email) ==
    users[CHOOSE i \in 1 .. Len(users) :
             /\ users[i].email = email
             /\ \A j \in 1 .. i - 1 : users[j].email # email]

\* userModel.find({ email })
find(email) == SelectSeq(users, LAMBDA u : u.email = email)

HasId(id) == \E i \in 1 .. Len(users) : users[i]._id = id

findById(id) == users[CHOOSE i \in 1 .. Len(users) : users[i]._id = id]

\* the unique index on email: what newUser.save() finds at the moment it runs
IsDuplicate(doc) == HasEmail(doc.email)

\* newUser.save(): the outcome of the insert
save(doc, storeOk) ==
    IF ~storeOk THEN Thrown(RawError("MongoNetworkError", 0))
    ELSE IF IsDuplicate(doc) THEN Thrown(RawError("MongoServerError", DuplicateKeyCode))
    ELSE Returned(doc)

(****************************** getJwtToken ********************************)
\* this.jwtService.sign(payload)
getJwtToken(payload, signOk) ==
    IF signOk THEN Returned([payload |-> payload, signature |-> "signed"])
    ELSE Thrown(RawError("Error", 0))

(********************************* create **********************************)
\* create as it would be if it stored the password it was given, unhashed
CreateBegin_StoresPlaintext(createUserDto, oid, salt) ==
    LET password == Get(createUserDto, "password")
        userData == Omit(createUserDto, "password")
    IN  IF password = Undefined
        THEN Thrown(RawError("Error", 0))
        ELSE Returned(Spread([_id |-> oid, password |-> password], userData))

\* lines 31-36: split the DTO, hash the password, build the document
\* (the new document gets a fresh _id, here the number of the call)
CreateBegin(createUserDto, oid, salt) ==
    LET password == Get(createUserDto, "password")
        userData == Omit(createUserDto, "password")
    IN  IF password = Undefined
        THEN Thrown(RawError("Error", 0))
        ELSE Returned(Spread([_id |-> oid, password |-> HashWithSalt(password, salt)],
                             userData))

\* the view as it would be if the password were left in it
CreateView_KeepsPassword(newUser) == newUser

\* lines 40-42: the view of the saved document
CreateView(newUser) == Omit(newUser, "password")

\* the catch as it would be if it did not recognise the duplicate-key error
CreateCatch_NoDuplicateCase(error, createUserDto) ==
    InternalServerErrorException(<<"Something went wrong with the server!">>)

\* lines 44-50: what create throws for a caught error
CreateCatch(error, createUserDto) ==
    IF error.code = DuplicateKeyCode
    THEN BadRequestException(createUserDto.email \o <<" already exist!">>)
    ELSE InternalServerErrorException(<<"Something went wrong with the server!">>)

\* create from the await of save() to its end
CreateEnd(saved, createUserDto) ==
    IF saved.kind = "throw"
    THEN Thrown(CreateCatch(saved.error, createUserDto))
    ELSE Returned(CreateView(saved.value))

(******************************** register *********************************)
\* lines 63-66: the object register hands to create
RegisterCreateDto(password, registerUserDto) ==
    Spread([password |-> password], registerUserDto)

\* lines 73-78: what register throws for a caught error
RegisterCatch(error) ==
    IF "response" \notin DOMAIN error
    THEN RawError("TypeError", 0)
    ELSE IF error.response.statusCode = BadRequestStatus
         THEN BadRequestException(error.response.message)
         ELSE InternalServerErrorException(<<"Internal server error">>)

\* register from the await of create to its end
RegisterEnd(created, signOk) ==
    IF created.kind = "throw"
    THEN Thrown(RegisterCatch(created.error))
    ELSE LET user == created.value
             token == getJwtToken([id |-> user._id], signOk)
         IN  IF token.kind = "throw"
             THEN Thrown(RegisterCatch(token.error))
             ELSE Returned([user |-> user, token |-> token.value])

(********************************* login ***********************************)
\* login as it would be if it did not compare the password
LoginResult_NoCompare(loginDto, signOk) ==
    LET email == Get(loginDto, "email")
    IN  IF ~HasEmail(email)
        THEN Thrown(UnauthorizedException(<<"Not valid credentials">>))
        ELSE LET user == findOne(email)
                 token == getJwtToken([id |-> user._id], signOk)
             IN  IF token.kind = "throw"
                 THEN Thrown(token.error)
                 ELSE Returned([user |-> Omit(user, "password"),
                                token |-> token.value])

\* lines 87-104
LoginResult(loginDto, signOk) ==
    LET email == Get(loginDto, "email")
        password == Get(loginDto, "password")
    IN  IF ~HasEmail(email)
        THEN Thrown(UnauthorizedException(<<"Not valid credentials">>))
        ELSE LET user == findOne(email)
             IN  IF ~compareSync(password, user.password)
                 THEN Thrown(UnauthorizedException(<<"Not valid credentials">>))
                 ELSE LET token == getJwtToken([id |-> user._id], signOk)
                      IN  IF token.kind = "throw"
                          THEN Thrown(token.error)
                          ELSE Returned([user |-> Omit(user, "password"),
                                         token |-> token.value])

(************************ findAll, searchEmail, findUserById ***************)
\* lines 112-116
FindAllResult == Returned([i \in 1 .. Len(users) |-> Omit(users[i], "password")])

\* lines 124-132: the arrow function's own email is the document's
SearchEmailResult(email) ==
    IF email = <<>>
    THEN Returned(<<>>)
    ELSE LET results == find(email)
         IN  Returned([i \in 1 .. Len(results) |-> [email |-> results[i].email]])

\* lines 141-144: user.toJSON() on the null that findById gives for no document
FindUserByIdResult(id) ==
    IF ~HasId(id)
    THEN Thrown(RawError("TypeError", 0))
    ELSE Returned(Omit(findById(id), "password"))

(***************************** the state machine ***************************)
Calls == 1 .. MaxCalls

Idle == [op |-> "none", pc |-> "idle"]

Init ==
    /\ users = <<>>
    /\ calls = [c \in Calls |-> Idle]
    /\ log = <<>>

\* calls are numbered in the order they are made
CanStart(c) ==
    /\ calls[c].pc = "idle"
    /\ IF c = 1 THEN TRUE ELSE calls[c - 1].pc # "idle"

Done(c, op, dto, result) ==
    [op |-> op, pc |-> "done", dto |-> dto, result |-> result]

\* create up to its await of newUser.save()
CallCreate(c) ==
    /\ CanStart(c)
    /\ \E dto \in CreateUserDtos :
          LET begun == CreateBegin(dto, c, genSalt(c))
          IN  calls' = [calls EXCEPT ![c] =
                  IF begun.kind = "throw"
                  THEN Done(c, "create", dto, Thrown(CreateCatch(begun.error, dto)))
                  ELSE [op |-> "create", pc |-> "save", dto |-> dto,
                        createDto |-> dto, newUser |-> begun.value]]
    /\ UNCHANGED <<users, log>>

\* register up to the await of newUser.save() inside create
CallRegister(c) ==
    /\ CanStart(c)
    /\ \E dto \in RegisterUserDtos, stream \in Streams :
          LET password == createRandomPassword(GeneratedLength, stream)
              createDto == RegisterCreateDto(password, dto)
              begun == CreateBegin(createDto, c, genSalt(c))
          IN  /\ log' = Append(log, password)
              /\ calls' = [calls EXCEPT ![c] =
                  IF begun.kind = "throw"
                  THEN Done(c, "register", dto,
                            Thrown(RegisterCatch(CreateCatch(begun.error, createDto))))
                       @@ [password |-> password]
                  ELSE [op |-> "register", pc |-> "save", dto |-> dto,
                        password |-> password,
                        createDto |-> createDto, newUser |-> begun.value]]
    /\ UNCHANGED users

\* the insert and the rest of create
CreateSave(c) ==
    /\ calls[c].pc = "save"
    /\ calls[c].op = "create"
    /\ \E storeOk \in BOOLEAN :
          LET saved == save(calls[c].newUser, storeOk)
          IN  /\ users' = IF saved.kind = "return"
                          THEN Append(users, saved.value) ELSE users
              /\ calls' = [calls EXCEPT ![c] =
                     Done(c, "create", calls[c].dto,
                          CreateEnd(saved, calls[c].createDto))
                     @@ [storeOk |-> storeOk]]
    /\ UNCHANGED log

\* the insert, the rest of create and the rest of register
RegisterSave(c) ==
    /\ calls[c].pc = "save"
    /\ calls[c].op = "register"
    /\ \E storeOk \in BOOLEAN, signOk \in BOOLEAN :
          LET saved == save(calls[c].newUser, storeOk)
              created == CreateEnd(saved, calls[c].createDto)
          IN  \* signOk is only consulted when create returned
              /\ created.kind = "throw" => signOk
              /\ users' = IF saved.kind = "return"
                          THEN Append(users, saved.value) ELSE users
              /\ calls' = [calls EXCEPT ![c] =
                     Done(c, "register", calls[c].dto, RegisterEnd(created, signOk))
                     @@ [password |-> calls[c].password, storeOk |-> storeOk]]
    /\ UNCHANGED log

\* a password a caller of login may try: one of the DTOs', or a generated one
KnownPasswords ==
    DtoPasswords \cup OtherPasswords \cup { log[i] : i \in 1 .. Len(log) }

Login(c) ==
    /\ CanStart(c)
    /\ \E email \in Emails, password \in KnownPasswords, signOk \in BOOLEAN :
          LET dto == [email |-> email, password |-> password]
          IN  \* signOk is only consulted when the credentials are accepted
              /\ LoginResult(dto, TRUE).kind = "throw" => signOk
              /\ calls' = [calls EXCEPT ![c] =
                  Done(c, "login", dto, LoginResult(dto, signOk))]
    /\ UNCHANGED <<users, log>>

FindAll(c) ==
    /\ CanStart(c)
    /\ calls' = [calls EXCEPT ![c] = Done(c, "findAll", <<>>, FindAllResult)]
    /\ UNCHANGED <<users, log>>

SearchEmail(c) ==
    /\ CanStart(c)
    /\ \E email \in Emails \cup {<<>>} :
          calls' = [calls EXCEPT ![c] =
              Done(c, "searchEmail", email, SearchEmailResult(email))]
    /\ UNCHANGED <<users, log>>

\* ids of documents that exist or may come to exist, and one that never does
Ids == 1 .. MaxCalls + 1

FindUserById(c) ==
    /\ CanStart(c)
    /\ \E id \in Ids :
          calls' = [calls EXCEPT ![c] =
              Done(c, "findUserById", id, FindUserByIdResult(id))]
    /\ UNCHANGED <<users, log>>

Next ==
    \E c \in Calls :
        \/ CallCreate(c)
        \/ CreateSave(c)
        \/ CallRegister(c)
        \/ RegisterSave(c)
        \/ Login(c)
        \/ FindAll(c)
        \/ SearchEmail(c)
        \/ FindUserById(c)

Spec == Init /\ [][Next]_vars

(***************************** reading the state ***************************)
Finished(c) == calls[c].pc = "done"
ReturnedFrom(c, op) ==
    Finished(c) /\ calls[c].op = op /\ calls[c].result.kind = "return"
ThrewFrom(c, op) ==
    Finished(c) /\ calls[c].op = op /\ calls[c].result.kind = "throw"

\* the document built by call c is in the collection
Inserted(c) == HasId(c)

IsHttp(error, status) ==
    "response" \in DOMAIN error /\ error.response.statusCode = status

AccountAlreadyExists(email) ==
    BadRequestException(email \o <<" already exist!">>)

NotValidCredentials == UnauthorizedException(<<"Not valid credentials">>)

\* String.prototype.toLowerCase on the letters of banco
ToLowerChar(ch) ==
    IF IndexOf(ch) \in 1 .. 26 THEN banco[IndexOf(ch) + 26] ELSE ch
ToLowerCase(s) == [i \in 1 .. Len(s) |-> ToLowerChar(s[i])]

\* every plaintext secret a call may have carried, and every hash held by a
\* stored document or by a document waiting to be saved
Plaintexts == KnownPasswords
Hashes ==
    { users[i].password : i \in 1 .. Len(users) }
        \cup { calls[c].newUser.password : c \in { d \in Calls : calls[d].pc = "save" } }

\* the account views a finished call handed to its caller
ViewsOf(c) ==
    LET r == calls[c].result
    IN  IF ~Finished(c) \/ r.kind # "return" THEN {}
        ELSE IF calls[c].op \in {"create", "findUserById"} THEN {r.value}
        ELSE IF calls[c].op \in {"register", "login"} THEN {r.value.user}
        ELSE { r.value[i] : i \in 1 .. Len(r.value) }

HoldsNoSecret(view) ==
    /\ "password" \notin DOMAIN view
    /\ \A f \in DOMAIN view \ {"_id"} : view[f] \notin Plaintexts \cup Hashes

\* the create calls made with email k and a password
CreatesOf(k) ==
    { c \in Calls : /\ Finished(c) /\ calls[c].op = "create"
                    /\ calls[c].dto.email = k
                    /\ "password" \in DOMAIN calls[c].dto }

(********************************* claims **********************************)

\* C1: of the create calls that carry the same email, however they interleave,
\* at most one succeeds; each other one whose insert reached the store fails
\* with BadRequest '<email> already exist!'; when the store answered them all
\* and no register call took the email, exactly one succeeds; and the
\* collection never holds two documents with the same email.
C1_OneAccountPerEmail ==
    /\ \A i, j \in 1 .. Len(users) : i # j => users[i].email # users[j].email
    /\ \A k \in Emails :
          /\ Cardinality({ c \in CreatesOf(k) : ReturnedFrom(c, "create") }) <= 1
          /\ \A c \in CreatesOf(k) :
                ThrewFrom(c, "create") /\ calls[c].storeOk
                    => /\ calls[c].result.error = AccountAlreadyExists(k)
                       /\ HasEmail(k) /\ ~Inserted(c)
          /\ ( /\ CreatesOf(k) # {}
               /\ \A c \in CreatesOf(k) : calls[c].storeOk
               /\ ~\E c \in Calls : calls[c].op = "register" /\ Inserted(c)
                                    /\ findById(c).email = k )
                => Cardinality({ c \in CreatesOf(k) : ReturnedFrom(c, "create") }) = 1

\* C1 witness: two create calls with one email were in flight together (the one
\* made first lost the insert to the one made second): one returned, the other
\* failed with AccountAlreadyExists.
C1_Witness ==
    \E c1, c2 \in Calls :
        /\ c1 < c2
        /\ ThrewFrom(c1, "create") /\ ReturnedFrom(c2, "create")
        /\ calls[c1].dto.email = calls[c2].dto.email
        /\ calls[c1].result.error = AccountAlreadyExists(calls[c1].dto.email)

\* C2: no account view returned by create, register, login, findAll,
\* findUserById or searchEmail has a password field or a field whose value is
\* a plaintext secret or a hash of one.
C2_ViewsHoldNoSecret ==
    \A c \in Calls : \A view \in ViewsOf(c) : HoldsNoSecret(view)

\* C2 witness: a read operation returned the view of a stored account, which
\* a create or register call before it had returned a view of too.
C2_Witness ==
    \E c, d \in Calls :
        /\ calls[c].op \in {"create", "register"} /\ ViewsOf(c) # {}
        /\ calls[d].op \in {"login", "findAll", "findUserById", "searchEmail"}
        /\ ViewsOf(d) # {}

\* what C3 asks of the login step that settles call c
C3_LoginStep(c) ==
    LET dto == calls'[c].dto
        r == calls'[c].result
        Matches == { i \in 1 .. Len(users) :
                        /\ users[i].email = dto.email
                        /\ compareSync(dto.password, users[i].password) }
    IN  /\ r.kind = "return"
            => \E i \in Matches : /\ r.value.token.payload.id = users[i]._id
                                  /\ r.value.user._id = users[i]._id
        /\ Matches = {} => r = Thrown(NotValidCredentials)

\* C3: a login step returns a token only when the collection holds a document
\* with the supplied email whose hash verifies the supplied password, and then
\* the token's id is that document's id; when no such document is held the
\* step fails with Unauthorized 'Not valid credentials' and issues no token.
C3_LoginTokenOnlyForVerifiedAccount ==
    [][\A c \in Calls :
          calls[c].pc = "idle" /\ calls'[c].pc = "done" /\ calls'[c].op = "login"
              => C3_LoginStep(c)]_vars

\* C3 witness: a login was given a token, whose id is that of a stored
\* document with the login's email.
C3_Witness ==
    \E c \in Calls :
        /\ ReturnedFrom(c, "login")
        /\ HasId(calls[c].result.value.token.payload.id)
        /\ findById(calls[c].result.value.token.payload.id).email = calls[c].dto.email

\* what C4 asks of the document stored by create call c
C4_Stored(c) ==
    LET secret == calls[c].dto.password
    IN  ReturnedFrom(c, "create") /\ Len(secret) >= PasswordMinLength
            => /\ Inserted(c)
               /\ compareSync(secret, findById(c).password)
               /\ findById(c).password # secret

\* what C4 asks of the login step that settles call l
C4_LoginStep(l) ==
    \A c \in Calls :
        ( /\ ReturnedFrom(c, "create")
          /\ Len(calls[c].dto.password) >= PasswordMinLength
          /\ calls'[l].dto.email = calls[c].dto.email
          /\ calls'[l].dto.password = calls[c].dto.password )
        => LET r == calls'[l].result
           IN  \/ r.kind = "return" /\ r.value.token.payload.id = c
               \/ r.kind = "throw" /\ "response" \notin DOMAIN r.error

\* C4: when create has succeeded with a secret of length >= 6, the stored hash
\* verifies that secret and is not the secret itself, and a login made
\* afterwards with the same email and secret is accepted: it returns a token for
\* the created account unless the signing of the token itself fails.
C4_CreatedSecretVerifies ==
    /\ [](\A c \in Calls : C4_Stored(c))
    /\ [][\A l \in Calls :
            calls[l].pc = "idle" /\ calls'[l].pc = "done" /\ calls'[l].op = "login"
                => C4_LoginStep(l)]_vars

\* C4 witness: create succeeded and a login with its email and secret returned.
C4_Witness ==
    \E c, l \in Calls :
        /\ ReturnedFrom(c, "create") /\ ReturnedFrom(l, "login")
        /\ Len(calls[c].dto.password) >= PasswordMinLength
        /\ calls[l].dto = [email |-> calls[c].dto.email,
                           password |-> calls[c].dto.password]

\* C5: the secret register generates is in register's result and is never
\* written to the log nor stored in plaintext.
C5_GeneratedSecretNeverLogged ==
    \A c \in Calls :
        calls[c].op = "register"
            => /\ \A i \in 1 .. Len(log) : log[i] # calls[c].password
               /\ \A i \in 1 .. Len(users) : users[i].password # calls[c].password
               /\ ReturnedFrom(c, "register")
                      => \E f \in DOMAIN calls[c].result.value :
                            f \notin {"user", "token"}

\* C6: the account register stores has a hash that verifies the secret register
\* generated, and no other secret.
C6_RegisterStoresGeneratedSecret ==
    \A c \in Calls :
        calls[c].op = "register" /\ Inserted(c)
            => /\ Len(calls[c].password) = GeneratedLength
               /\ \A p \in Plaintexts :
                     compareSync(p, findById(c).password) <=> p = calls[c].password

\* C7: the collection never holds two documents whose emails are equal up to
\* letter case.
C7_EmailsUniqueUpToCase ==
    \A i, j \in 1 .. Len(users) :
        i # j => ToLowerCase(users[i].email) # ToLowerCase(users[j].email)

\* C8: findUserById fails with NotFound, and with nothing else.
C8_FindUserByIdAbsentIsNotFound ==
    \A c \in Calls :
        ThrewFrom(c, "findUserById") => IsHttp(calls[c].result.error, 404)

\* C9: every error create or register throws is a BadRequest (for a duplicate
\* email) or an InternalServerError; no raw error escapes.
C9_FailuresAreTaxonomyErrors ==
    \A c \in Calls :
        ThrewFrom(c, "create") \/ ThrewFrom(c, "register")
            => \/ IsHttp(calls[c].result.error, BadRequestStatus)
               \/ IsHttp(calls[c].result.error, 500)

\* C10: a register call that ends in an error has left no document behind, and
\* one that left a document has returned its view and a token for its id.
C10_RegisterAllOrNothing ==
    \A c \in Calls :
        /\ ThrewFrom(c, "register") => ~Inserted(c)
        /\ Finished(c) /\ calls[c].op = "register" /\ Inserted(c)
              => /\ calls[c].result.kind = "return"
                 /\ calls[c].result.value.user._id = c
                 /\ calls[c].result.value.token.payload.id = c

====
